---- MODULE Spec2Model ----
(***************************************************************************)
(* pgdb2: query functors over a psycopg2 connection pool.                  *)
(*                                                                         *)
(* DSQuery.__call__ (argument binding, execution, commit / rollback,       *)
(* reconnect-and-retry) and DSCompatQuery.__call__ of src/__init__.py as a *)
(* state machine.  One behaviour is one functor, constructed in Init, and  *)
(* one top-level invocation of it, with the nested invocations its retry   *)
(* makes.  The pool, the connection and the cursor are the environment:    *)
(* every call into them may succeed or raise.                              *)
(***************************************************************************)
EXTENDS Integers, Sequences, FiniteSets, TLC

(***************************************************************************)
(* Bounds of the model.                                                    *)
(***************************************************************************)
MaxVal == 2
MaxKeys == 2
MaxRetry == 2
MaxRows == 1

(***************************************************************************)
(* Values.  Python values are encoded as integers: None, the atoms         *)
(* 1..MaxVal a caller passes, DefVal the value a defaults mapping holds,   *)
(* and one code for each composite payload object (the dict, the list or   *)
(* the attribute-bearing object passed as the single positional argument)  *)
(* for the paths on which the object itself is bound as a parameter.       *)
(***************************************************************************)
None == 0
DictObj == -1
ListObj == -2
AttrObj == -3
Atoms == 1..MaxVal
Vals == {None} \cup Atoms
DefVal == MaxVal + 1

\* d.pop('_retry', 0): the budget of a call that carries no '_retry' key.
DefaultRetry == 0
\* Encoding of "the mapping carries no '_retry' key".
NoRetry == -1
\* DSCompatQuery's error value.
Sentinel == -1

(***************************************************************************)
(* Keys.  "The keys need not be strings": k1 stands for a key that is not  *)
(* a string (an int, a tuple).                                             *)
(***************************************************************************)
StrKeys == {"a", "b"}
NonStrKeys == {"k1"}
IsStr(k) == k \in StrKeys

(***************************************************************************)
(* Conversion functions of a spec: nop (the identity), str (total, and not *)
(* the identity: str(12) is '12', encoded 100 + 12) and int, which raises  *)
(* on None and on a dict, list or object.                                  *)
(***************************************************************************)
Fns == {"nop", "str", "int"}
Fails(f, v) == f = "int" /\ v \notin Atoms
Apply(f, v) == IF f = "str" THEN 100 + v ELSE v

(***************************************************************************)
(* Mappings (Python dicts) are functions on a finite set of keys.          *)
(***************************************************************************)
EmptyMap == [k \in {} |-> None]
Maps(K, V) == UNION {[S -> V] : S \in SUBSET K}
\* m.get(k)
Get(m, k) == IF k \in DOMAIN m THEN m[k] ELSE None
\* e.update(d) on a copy e
Update(e, d) == [k \in (DOMAIN e) \cup (DOMAIN d) |->
                    IF k \in DOMAIN d THEN d[k] ELSE e[k]]
SeqsUpTo(S, n) == UNION {[1..m -> S] : m \in 0..n}
Min(x, y) == IF x < y THEN x ELSE y
Last(s) == s[Len(s)]

VARIABLES
    cls,         \* "DSQuery" or "DSCompatQuery"
    keys,        \* self.keys: the spec, a sequence of [k, f]
    keysIsDict,  \* self.keys is a mapping key -> function, listed in keys
    defaults,    \* self.defaults
    autocommit,  \* self.autocommit
    call,        \* the arguments of the top-level invocation
    d,           \* the frame's d, '_retry' popped
    retry,       \* the frame's _retry
    prep,        \* the frame's prep: [ok, list, map]
    pc,          \* where the innermost frame stands
    con,         \* the frame's con: 0 is None, otherwise a connection id
    held,        \* connections checked out of the pool and not put back
    closed,      \* connections close() was called on
    nconn,       \* connections the pool has handed out so far
    cur,         \* the cursor of the last execute: [desc, n]
    log,         \* the calls made into pool, connection and cursor, in order
    stack,       \* the suspended outer frames, each inside `return self( **d )`
    exc,         \* the exception in flight, "none" if none
    ret,         \* the value being returned: [kind, n]
    module_ds,   \* the module's default data source: 0 is None, else its id
    nds,         \* data sources constructed so far
    made,        \* what each Query() call was given and what it returned
    cq,          \* a CachedQuery has been constructed
    cq_q,        \* self.q: [str], whether str(self.q) returns
    cq_to,       \* self.to
    cq_f,        \* self.f
    cq_t,        \* self.t
    cq_list,     \* the elements of the list the CachedQuery is
    now,         \* time.time()
    ncalls,      \* how often self.q has been called
    attempt,     \* the last refresh: [at, ok]
    obs,         \* the last operation on the CachedQuery: what it answered or
                 \* raised, and how often it called self.q
    tpc,         \* per thread, where its observation stands
    seen,        \* per thread, the self.t its check compared with
    tl           \* per thread, the read it is in and the right-hand side
                 \* line 287 has computed for it

vars == <<cls, keys, keysIsDict, defaults, autocommit, call, d, retry, prep,
          pc, con, held, closed, nconn, cur, log, stack, exc, ret,
          module_ds, nds, made,
          cq, cq_q, cq_to, cq_f, cq_t, cq_list, now, ncalls, attempt, obs,
          tpc, seen, tl>>

module == <<module_ds, nds, made>>
cache == <<cq, cq_q, cq_to, cq_f, cq_t, cq_list, now, ncalls, attempt, obs>>
threads == <<tpc, seen, tl>>

functor == <<cls, keys, keysIsDict, defaults, autocommit>>

(***************************************************************************)
(* DSQuery.prep_list and DSQuery.dmap.                                     *)
(***************************************************************************)
\* The value bound to key k from payload m.  A mapping payload is laid over
\* a copy of the defaults (e.update(d); e.get(k)); any other payload is read
\* by attribute, getattr(d, k, e.get(k)).
\* (variant: the payload is overlaid by the defaults, d.update(e))
PayloadCopy_DefaultsWin(m, dflt) == Update(m, dflt)
PayloadCopy(m, dflt) == Update(dflt, m)
Lookup(isdict, m, dflt, k) ==
    IF isdict THEN Get(PayloadCopy(m, dflt), k)
    ELSE IF k \in DOMAIN m THEN m[k] ELSE Get(dflt, k)
\* getattr raises TypeError on an attribute name that is not a string.
LookupFails(isdict, k) == ~isdict /\ ~IsStr(k)

\* dmap(g, keys) for an ordered spec: [g(k, f) for (k, f) in keys]
dmapList(isdict, m, dflt, ks) ==
    [i \in 1..Len(ks) |-> Apply(ks[i].f, Lookup(isdict, m, dflt, ks[i].k))]
\* dmap(g, keys) for a mapping spec: {k: g(k, f)}
dmapDict(isdict, m, dflt, ks) ==
    [k \in {ks[i].k : i \in 1..Len(ks)} |->
        LET i == CHOOSE j \in 1..Len(ks) : ks[j].k = k
        IN  Apply(ks[i].f, Lookup(isdict, m, dflt, k))]
\* prep_list(d): the parameters, or the exception of a conversion re-raised.
prep_list(isdict, m, dflt, ks, ksIsDict) ==
    IF \E i \in 1..Len(ks) :
          \/ LookupFails(isdict, ks[i].k)
          \/ Fails(ks[i].f, Lookup(isdict, m, dflt, ks[i].k))
    THEN [ok |-> FALSE, list |-> <<>>, map |-> EmptyMap]
    ELSE IF ksIsDict
         THEN [ok |-> TRUE, list |-> <<>>, map |-> dmapDict(isdict, m, dflt, ks)]
         ELSE [ok |-> TRUE, list |-> dmapList(isdict, m, dflt, ks), map |-> EmptyMap]

(***************************************************************************)
(* The head of DSQuery.__call__: from its arguments to d, _retry and prep. *)
(* An invocation is [al, kw, kwretry, pm, pmretry, pl]: the positional     *)
(* arguments, the keyword arguments without '_retry', the '_retry' keyword *)
(* (NoRetry if absent), and the content of the composite object passed as  *)
(* the single positional argument: pm (with pmretry, its '_retry' entry)   *)
(* the entries of a dict or the attributes of an object, pl the elements   *)
(* of a list.                                                              *)
(***************************************************************************)
\* `not d`
NotD(m, r) == DOMAIN m = {} /\ r = NoRetry
\* if not d and len(al) == 1: dict -> d = al[0]; list -> al = al[0]
Unwraps(c) == NotD(c.kw, c.kwretry) /\ Len(c.al) = 1
UnwrapD(c) == IF Unwraps(c) /\ c.al[1] = DictObj THEN c.pm ELSE c.kw
UnwrapRetry(c) == IF Unwraps(c) /\ c.al[1] = DictObj THEN c.pmretry ELSE c.kwretry
\* (variant: a list passed alone is not unwrapped)
UnwrapAl_NoList(c) == c.al
UnwrapAl(c) == IF Unwraps(c) /\ c.al[1] = ListObj THEN c.pl ELSE c.al
\* _retry = d.pop('_retry', 0)
PopRetry(r) == IF r = NoRetry THEN DefaultRetry ELSE r
\* dict(zip([k for k, f in keys], al)): a later pair wins over an earlier one
ZipKeys(ks, al) ==
    LET n == Min(Len(ks), Len(al))
    IN  [k \in {ks[i].k : i \in 1..n} |->
            LET i == CHOOSE j \in 1..n :
                        ks[j].k = k /\ \A l \in 1..n : ks[l].k = k => l <= j
            IN  al[i]]
\* if not d and al and not isinstance(self.keys, dict): d = dict(zip(...))
Positional(dd, al, ks, ksIsDict) ==
    IF DOMAIN dd = {} /\ al # <<>> /\ ~ksIsDict THEN ZipKeys(ks, al) ELSE dd
CallD(c, ks, ksIsDict) == Positional(UnwrapD(c), UnwrapAl(c), ks, ksIsDict)
CallRetry(c) == PopRetry(UnwrapRetry(c))
CallPrep(c, ks, ksIsDict, dflt) ==
    prep_list(TRUE, CallD(c, ks, ksIsDict), dflt, ks, ksIsDict)

(***************************************************************************)
(* Inputs.                                                                 *)
(***************************************************************************)
Pairs(K, F) == {[k |-> x, f |-> g] : x \in K, g \in F}
Distinct(ks) == \A i, j \in 1..Len(ks) : ks[i].k = ks[j].k => i = j
Invocation(al, kw, kwretry, pm, pmretry, pl) ==
    [al |-> al, kw |-> kw, kwretry |-> kwretry,
     pm |-> pm, pmretry |-> pmretry, pl |-> pl]
\* q(), q(v1, ..), q(a=v1, ..): with or without _retry=r
PlainCalls(K, V, n, R) ==
    {Invocation(al, EmptyMap, r, EmptyMap, NoRetry, <<>>) :
        al \in SeqsUpTo(V, n), r \in R}
    \cup
    {Invocation(<<>>, kw, r, EmptyMap, NoRetry, <<>>) :
        kw \in Maps(K \cap StrKeys, V), r \in R}
\* q({..}), the dict may hold '_retry'; q(obj); q([..]); the last two with or
\* without _retry=r
ObjectCalls(K, V, n, R) ==
    {Invocation(<<DictObj>>, EmptyMap, NoRetry, pm, r, <<>>) :
        pm \in Maps(K, V), r \in R}
    \cup
    {Invocation(<<AttrObj>>, EmptyMap, r, pm, NoRetry, <<>>) :
        pm \in Maps(K \cap StrKeys, V), r \in R}
    \cup
    {Invocation(<<ListObj>>, EmptyMap, r, EmptyMap, NoRetry, pl) :
        pl \in SeqsUpTo(V, n), r \in R}

BindSpecs ==
    {ks \in SeqsUpTo(Pairs(StrKeys, Fns), MaxKeys) : TRUE}
BindCalls ==
    PlainCalls(StrKeys, Vals, MaxKeys, {NoRetry, DefaultRetry})
    \cup ObjectCalls(StrKeys, Vals, MaxKeys, {NoRetry, DefaultRetry})

(***************************************************************************)
(* State after construction: DSQuery.__init__ stores its arguments.        *)
(***************************************************************************)
\* module_ds = None (line 202): no default data source, no Query() call yet.
NoModule ==
    /\ module_ds = None
    /\ nds = 0
    /\ made = <<>>
\* No CachedQuery has been constructed, and no thread is inside one.
Threads == {1, 2}
NoCache ==
    /\ cq = FALSE
    /\ cq_q = [str |-> TRUE]
    /\ cq_to = 0
    /\ cq_f = "nop"
    /\ cq_t = 0
    /\ cq_list = <<>>
    /\ ncalls = 0
    /\ attempt = [at |-> 0, ok |-> TRUE]
    /\ obs = [op |-> "none", raised |-> "none", called |-> 0, n |-> 0, seq |-> <<>>]
NoThreads ==
    /\ tpc = [th \in Threads |-> "idle"]
    /\ seen = [th \in Threads |-> 0]
    /\ tl = [th \in Threads |-> [op |-> "none", t |-> 0, ok |-> TRUE, l |-> <<>>]]
Idle ==
    /\ call = Invocation(<<>>, EmptyMap, NoRetry, EmptyMap, NoRetry, <<>>)
    /\ d = EmptyMap
    /\ retry = DefaultRetry
    /\ prep = [ok |-> TRUE, list |-> <<>>, map |-> EmptyMap]
    /\ pc = "idle"
    /\ con = 0
    /\ held = {}
    /\ closed = {}
    /\ nconn = 0
    /\ cur = [desc |-> FALSE, n |-> 0]
    /\ log = <<>>
    /\ stack = <<>>
    /\ exc = "none"
    /\ ret = [kind |-> "none", n |-> 0]

BindInit ==
    /\ cls \in {"DSQuery"}
    /\ keys \in BindSpecs
    /\ keysIsDict \in {b \in BOOLEAN : b => Distinct(keys)}
    /\ defaults \in Maps(StrKeys, {DefVal})
    /\ autocommit = TRUE
    /\ Idle
    /\ NoModule
    /\ NoCache
    /\ now = 1
    /\ NoThreads

(***************************************************************************)
(* DSQuery.__call__, lines 131-141: bind, then con = None.                 *)
(***************************************************************************)
Enter(c) ==
    /\ d' = CallD(c, keys, keysIsDict)
    /\ retry' = CallRetry(c)
    /\ prep' = CallPrep(c, keys, keysIsDict, defaults)
    /\ con' = 0
    /\ IF prep'.ok
       THEN pc' = "getconn" /\ exc' = "none"
       ELSE pc' = "raise" /\ exc' = "ConvertError"

Invoke(c) ==
    /\ pc = "idle"
    /\ call' = c
    /\ Enter(c)
    /\ UNCHANGED <<module, cache, threads, functor, held, closed, nconn, cur, log, stack, ret>>

(***************************************************************************)
(* The environment.  A call into the pool, the connection or the cursor    *)
(* returns, raises psycopg2.OperationalError (the connection is broken) or *)
(* raises another exception (a statement error, a pool error).             *)
(***************************************************************************)
Errors == {"OperationalError", "OtherError"}
Ev(op, c, res) == [op |-> op, c |-> c, res |-> res]
\* Which except clause of __call__ takes an exception raised in its try.
Catch(e) == IF e = "OperationalError" THEN "operr" ELSE "except"

\* con = self.pool.getconn()
GetConn ==
    /\ pc = "getconn"
    /\ \/ /\ nconn' = nconn + 1
          /\ con' = nconn + 1
          /\ held' = held \cup {nconn + 1}
          /\ log' = Append(log, Ev("getconn", nconn + 1, "ok"))
          /\ pc' = "execute"
          /\ UNCHANGED exc
       \/ \E e \in Errors :
          /\ log' = Append(log, Ev("getconn", 0, e))
          /\ pc' = Catch(e)
          /\ exc' = e
          /\ UNCHANGED <<nconn, con, held>>
    /\ UNCHANGED <<module, cache, threads, functor, call, d, retry, prep, closed, cur, stack, ret>>

\* if cur.description: ret = cur.fetchall()  else: ret = cur.rowcount
Classify(desc, n) ==
    IF desc THEN [kind |-> "rows", n |-> n] ELSE [kind |-> "int", n |-> n]
\* if self.autocommit: con.commit()
\* (variant: the commit is not guarded by self.autocommit)
AfterExecute_AlwaysCommit(ac) == "commit"
AfterExecute(ac) == IF ac THEN "commit" ELSE "putconn"

\* cur = con.cursor(); cur.execute(self.sql, prep); the result is classified
Execute ==
    /\ pc = "execute"
    /\ \/ \E desc \in BOOLEAN, n \in 0..MaxRows :
          /\ log' = Append(log, Ev("execute", con, "ok"))
          /\ cur' = [desc |-> desc, n |-> n]
          /\ ret' = Classify(desc, n)
          /\ pc' = AfterExecute(autocommit)
          /\ UNCHANGED exc
       \/ \E e \in Errors :
          /\ log' = Append(log, Ev("execute", con, e))
          /\ pc' = Catch(e)
          /\ exc' = e
          /\ UNCHANGED <<cur, ret>>
    /\ UNCHANGED <<module, cache, threads, functor, call, d, retry, prep, con, held, closed, nconn, stack>>

\* con.commit()
Commit ==
    /\ pc = "commit"
    /\ \/ /\ log' = Append(log, Ev("commit", con, "ok"))
          /\ pc' = "putconn"
          /\ UNCHANGED exc
       \/ \E e \in Errors :
          /\ log' = Append(log, Ev("commit", con, e))
          /\ pc' = Catch(e)
          /\ exc' = e
    /\ UNCHANGED <<module, cache, threads, functor, call, d, retry, prep, con, held, closed, nconn, cur, stack, ret>>

\* self.pool.putconn(con); return ret
PutConn ==
    /\ pc = "putconn"
    /\ held' = held \ {con}
    /\ log' = Append(log, Ev("putconn", con, "ok"))
    /\ pc' = "ret"
    /\ UNCHANGED <<module, cache, threads, functor, call, d, retry, prep, con, closed, nconn, cur, stack, exc, ret>>

(***************************************************************************)
(* except pg.OperationalError: with budget left the connection is closed   *)
(* and put back and the functor calls itself, self( **d ), with _retry - 1;  *)
(* without, the exception is re-raised as it is.  con.close() on the None  *)
(* a failed getconn() left in con raises AttributeError, and self( **d )     *)
(* raises TypeError when d holds a key that is not a string; both are      *)
(* raised inside the except clause and leave the frame.                    *)
(***************************************************************************)
\* if _retry:
Retries(r) == r # 0
\* self( **d )
KeywordsOk(dd) == \A k \in DOMAIN dd : IsStr(k)
\* d.update(_retry=_retry-1); self( **d )
Reinvocation(dd, r) == Invocation(<<>>, dd, r - 1, EmptyMap, NoRetry, <<>>)
\* (variant: the closed connection is not put back before the retry)
CloseBroken_NoPutconn(c) == <<Ev("close", c, "ok")>>
\* con.close(); self.pool.putconn(con)
CloseBroken(c) == <<Ev("close", c, "ok"), Ev("putconn", c, "ok")>>
\* The pool and the connections after a sequence of calls.
Released(h, evs) == h \ {evs[i].c : i \in {j \in 1..Len(evs) : evs[j].op = "putconn"}}
Closed(cl, evs) == cl \cup {evs[i].c : i \in {j \in 1..Len(evs) : evs[j].op = "close"}}

OperErr ==
    /\ pc = "operr"
    /\ IF Retries(retry)
       THEN IF con = 0
            THEN /\ pc' = "raise"
                 /\ exc' = "AttributeError"
                 /\ UNCHANGED <<d, retry, prep, con, held, closed, log, stack>>
            ELSE /\ closed' = Closed(closed, CloseBroken(con))
                 /\ held' = Released(held, CloseBroken(con))
                 /\ log' = log \o CloseBroken(con)
                 /\ IF KeywordsOk(d)
                    THEN /\ stack' = Append(stack, [retry |-> retry, con |-> con])
                         /\ Enter(Reinvocation(d, retry))
                    ELSE /\ pc' = "raise"
                         /\ exc' = "TypeError"
                         /\ UNCHANGED <<d, retry, prep, con, stack>>
       ELSE /\ pc' = "raise"
            /\ UNCHANGED <<d, retry, prep, con, held, closed, log, stack, exc>>
    /\ UNCHANGED <<module, cache, threads, functor, call, nconn, cur, ret>>

(***************************************************************************)
(* except Exception: if con: con.rollback(); self.pool.putconn(con); raise *)
(* A rollback that raises leaves the clause with its own exception.        *)
(***************************************************************************)
Except ==
    /\ pc = "except"
    /\ pc' = "raise"
    /\ IF con # 0
       THEN \/ /\ log' = log \o <<Ev("rollback", con, "ok"), Ev("putconn", con, "ok")>>
               /\ held' = held \ {con}
               /\ UNCHANGED exc
            \/ /\ log' = Append(log, Ev("rollback", con, "OtherError"))
               /\ exc' = "RollbackError"
               /\ UNCHANGED held
       ELSE UNCHANGED <<log, held, exc>>
    /\ UNCHANGED <<module, cache, threads, functor, call, d, retry, prep, con, closed, nconn, cur, stack, ret>>

(***************************************************************************)
(* Leaving a frame.  DSCompatQuery.__call__ wraps every DSQuery.__call__,  *)
(* the nested ones too (self( **d ) is the functor's own __call__):          *)
(*   try:    return [ dict(e) for e in DSQuery.__call__(self, ...) ]  *)
(*   except Exception, x: return -1                                        *)
(* Iterating over an int raises TypeError inside the try.                  *)
(***************************************************************************)
CompatRet(r, e) ==
    IF e # "none" \/ r.kind = "int"
    THEN [kind |-> "int", n |-> Sentinel]
    ELSE [kind |-> "dicts", n |-> r.n]
\* (variant: the wrapper catches the database's exceptions only)
Leave_DbErrorsOnly(c, r, e) ==
    IF c = "DSCompatQuery" /\ e \in {"none", "OperationalError", "OtherError", "RollbackError"}
    THEN [ret |-> CompatRet(r, e), exc |-> "none"]
    ELSE [ret |-> r, exc |-> e]
Leave(c, r, e) ==
    IF c = "DSCompatQuery"
    THEN [ret |-> CompatRet(r, e), exc |-> "none"]
    ELSE [ret |-> r, exc |-> e]

Return ==
    /\ pc \in {"ret", "raise"}
    /\ LET out == Leave(cls, ret, IF pc = "raise" THEN exc ELSE "none")
       IN  /\ ret' = out.ret
           /\ exc' = out.exc
           /\ IF stack = <<>>
              THEN /\ pc' = "done"
                   /\ UNCHANGED <<retry, con, stack>>
              ELSE /\ pc' = IF out.exc = "none" THEN "ret" ELSE "raise"
                   /\ retry' = Last(stack).retry
                   /\ con' = Last(stack).con
                   /\ stack' = SubSeq(stack, 1, Len(stack) - 1)
    /\ UNCHANGED <<module, cache, threads, functor, call, d, prep, held, closed, nconn, cur, log>>

(***************************************************************************)
(* The invocations and functors of the execution model.                    *)
(***************************************************************************)
ExecKeys == {"a"} \cup NonStrKeys
ExecSpecs == SeqsUpTo(Pairs(ExecKeys, {"nop", "int"}), 1)
RetryArgs == {NoRetry} \cup (0..MaxRetry)
ExecCalls ==
    PlainCalls(ExecKeys, {1}, 1, RetryArgs)
    \cup {c \in ObjectCalls(ExecKeys, {1}, 1, RetryArgs) : c.al = <<DictObj>>}

Init ==
    /\ cls \in {"DSQuery", "DSCompatQuery"}
    /\ keys \in ExecSpecs
    /\ keysIsDict = FALSE
    /\ defaults = EmptyMap
    /\ autocommit \in BOOLEAN
    /\ Idle
    /\ NoModule
    /\ NoCache
    /\ now = 1
    /\ NoThreads

Next ==
    \/ \E c \in ExecCalls : Invoke(c)
    \/ GetConn
    \/ Execute
    \/ Commit
    \/ PutConn
    \/ OperErr
    \/ Except
    \/ Return

Spec == Init /\ [][Next]_vars

(***************************************************************************)
(* What a finished invocation did, read off the log.                       *)
(***************************************************************************)
Idx(op) == {i \in 1..Len(log) : log[i].op = op}
\* execution attempts: calls of cur.execute
Attempts == Cardinality(Idx("execute"))
\* the retry budget the caller gave, and whether the caller gave one
Budget == CallRetry(call)
Overridden == UnwrapRetry(call) # NoRetry
\* the innermost DSQuery.__call__ ran to `return ret`
Succeeded ==
    /\ Len(log) >= 2
    /\ Last(log).op = "putconn"
    /\ log[Len(log) - 1].op \in {"execute", "commit"}
    /\ log[Len(log) - 1].res = "ok"
\* every attempt got a connection and failed in execute, connection broken
AllAttemptsBroken ==
    /\ Attempts >= 1
    /\ \A i \in Idx("getconn") : log[i].res = "ok"
    /\ \A i \in Idx("execute") : log[i].res = "OperationalError"
SentinelRet == [kind |-> "int", n |-> Sentinel]

(***************************************************************************)
(* C1.  A DSQuery invocation with retry budget r all of whose execution    *)
(* attempts fail with OperationalError makes exactly r + 1 attempts, and   *)
(* OperationalError then reaches the caller.                               *)
(***************************************************************************)
C1_RetryBound ==
    (pc = "done" /\ cls = "DSQuery" /\ AllAttemptsBroken)
        => (Attempts = Budget + 1 /\ exc = "OperationalError")
\* The same with d holding string keys only: the case the retry works in.
C1_RetryBoundStringKeys ==
    (pc = "done" /\ cls = "DSQuery" /\ AllAttemptsBroken /\ KeywordsOk(d))
        => (Attempts = Budget + 1 /\ exc = "OperationalError")

(***************************************************************************)
(* C2.  Without a '_retry' override the budget is 1: when the first        *)
(* attempt fails with OperationalError a second attempt is made, on a      *)
(* freshly acquired connection, and if it succeeds its result is returned. *)
(***************************************************************************)
C2_DefaultBudgetOne ==
    (/\ pc = "done"
     /\ cls = "DSQuery"
     /\ ~Overridden
     /\ Len(log) >= 2
     /\ log[1] = Ev("getconn", 1, "ok")
     /\ log[2] = Ev("execute", 1, "OperationalError"))
        => /\ \E i \in Idx("execute") : log[i].c # 1
           /\ Succeeded => exc = "none"

(***************************************************************************)
(* C3.  An execution attempt of DSQuery that fails with an error other     *)
(* than OperationalError is the last one, whatever the budget: the         *)
(* connection is rolled back, then put back, and that error is re-raised.  *)
(***************************************************************************)
C3_StatementErrorNotRetried ==
    \A i \in Idx("execute") :
        (pc = "done" /\ cls = "DSQuery" /\ log[i].res = "OtherError")
            => /\ Len(log) = i + 2
               /\ log[i + 1] = Ev("rollback", log[i].c, "ok")
               /\ log[i + 2] = Ev("putconn", log[i].c, "ok")
               /\ log[i].c \notin held
               /\ exc = "OtherError"
\* The part of C3 that does not depend on the rollback: no further attempt.
C3_NoFurtherAttempt ==
    \A i \in Idx("execute") :
        log[i].res = "OtherError" => \A j \in Idx("getconn") \cup Idx("execute") : j <= i

(***************************************************************************)
(* C4.  After every connection-broken failure on a connection, budget left *)
(* or not, the handler closes the connection and then puts it back: it is  *)
(* not left checked out.                                                   *)
(***************************************************************************)
C4_BrokenClosedAndReleased ==
    \A i \in 1..Len(log) :
        (/\ log[i].res = "OperationalError"
         /\ log[i].c # 0
         /\ ~(pc = "operr" /\ i = Len(log)))
            => /\ Len(log) >= i + 2
               /\ log[i + 1] = Ev("close", log[i].c, "ok")
               /\ log[i + 2] = Ev("putconn", log[i].c, "ok")
               /\ log[i].c \in closed
               /\ log[i].c \notin held

\* The place of a call in the life of a connection.
Phase(op) ==
    CASE op = "getconn" -> 1
      [] op = "execute" -> 2
      [] op = "commit" -> 3
      [] op \in {"rollback", "close"} -> 4
      [] op = "putconn" -> 5
OnConn == {i \in 1..Len(log) : log[i].c # 0}

(***************************************************************************)
(* C5.  Within one invocation the calls on a connection come in the order  *)
(* getconn, execute, commit, rollback or close, putconn; a retry's getconn *)
(* comes after the putconn of the connection before it; never are two      *)
(* connections held at once.                                               *)
(***************************************************************************)
C5_Sequential ==
    /\ Cardinality(held) <= 1
    /\ \A i \in OnConn :
          log[i].op # "getconn" => i > 1 /\ log[i - 1].c = log[i].c
    /\ \A i \in Idx("commit") : log[i - 1].op = "execute" /\ log[i - 1].res = "ok"
    /\ \A i, j \in OnConn :
          i < j =>
            \/ log[i].c = log[j].c /\ Phase(log[i].op) < Phase(log[j].op)
            \/ /\ log[i].c < log[j].c
               /\ \E k \in i..(j - 1) : log[k] = Ev("putconn", log[i].c, "ok")
C5_Witness ==
    /\ pc = "done"
    /\ Succeeded
    /\ Cardinality(Idx("commit")) >= 2
    /\ Cardinality({i \in Idx("getconn") : log[i].res = "ok"}) = MaxRetry + 1

(***************************************************************************)
(* C6.  With autocommit true a successful execute is followed at once by   *)
(* one commit on the same connection, before the connection is put back;   *)
(* with autocommit false no commit is ever called.                         *)
(***************************************************************************)
C6_Autocommit ==
    IF autocommit
    THEN /\ \A i \in Idx("execute") :
              log[i].res = "ok" =>
                /\ i = Len(log) => pc = "commit"
                /\ i < Len(log) => log[i + 1].op = "commit" /\ log[i + 1].c = log[i].c
                /\ Cardinality({j \in Idx("commit") : log[j].c = log[i].c}) <= 1
                /\ \A j \in Idx("putconn") : log[j].c = log[i].c => j > i + 1
         /\ \A j \in Idx("commit") :
              log[j - 1] = Ev("execute", log[j].c, "ok")
    ELSE Idx("commit") = {}
C6_Witness ==
    /\ autocommit
    /\ pc = "done"
    /\ Succeeded
    /\ log[Len(log) - 1] = Ev("commit", con, "ok")
    /\ log[Len(log) - 2] = Ev("execute", con, "ok")

(***************************************************************************)
(* C7.  A DSCompatQuery invocation raises nothing: whenever the DSQuery    *)
(* invocation it wraps raises (binding, statement error, connection broken *)
(* with the budget spent) it returns -1.                                   *)
(***************************************************************************)
C7_CompatNeverRaises ==
    (cls = "DSCompatQuery" /\ pc = "done")
        => /\ exc = "none"
           /\ ~Succeeded => ret = SentinelRet
C7_Witness ==
    /\ cls = "DSCompatQuery"
    /\ pc = "done"
    /\ AllAttemptsBroken
    /\ Attempts = Budget + 1
    /\ Budget >= 1
    /\ ret = SentinelRet

(***************************************************************************)
(* C8.  The result of a successful execution depends only on whether the   *)
(* statement has output columns: the rows if it has, the affected-row      *)
(* count if not, for DSQuery and DSCompatQuery alike; DSCompatQuery        *)
(* returns -1 only when the wrapped invocation raised.                     *)
(***************************************************************************)
C8_ResultDuality ==
    (pc = "done" /\ Succeeded)
        => IF cur.desc
           THEN ret.kind \in {"rows", "dicts"} /\ ret.n = cur.n
           ELSE ret = [kind |-> "int", n |-> cur.n]
\* The same for DSQuery alone.
C8_ResultDualityDSQuery ==
    (pc = "done" /\ Succeeded /\ cls = "DSQuery") => ret = Classify(cur.desc, cur.n)

BindNext == \E c \in BindCalls : Invoke(c)

BindSpec == BindInit /\ [][BindNext]_vars

(***************************************************************************)
(* What the claims say binding yields for a mapping m, the defaults and an *)
(* ordered spec: per pair, the conversion of m[k] when k is in m and of    *)
(* defaults.get(k) otherwise; no list when a conversion raises.            *)
(***************************************************************************)
Chosen(m, dflt, k) == IF k \in DOMAIN m THEN m[k] ELSE Get(dflt, k)
Bound(m, dflt, ks) ==
    IF \E i \in 1..Len(ks) : Fails(ks[i].f, Chosen(m, dflt, ks[i].k))
    THEN [ok |-> FALSE, list |-> <<>>, map |-> EmptyMap]
    ELSE [ok |-> TRUE,
          list |-> [i \in 1..Len(ks) |-> Apply(ks[i].f, Chosen(m, dflt, ks[i].k))],
          map |-> EmptyMap]

\* prep is what the claims say, in every state after the binding.
C9_BindingState ==
    (pc # "idle" /\ ~keysIsDict) => prep = Bound(d, defaults, keys)

C9_DictCall ==
    (pc # "idle" /\ ~keysIsDict /\ call.al = <<DictObj>>)
        => prep = Bound(call.pm, defaults, keys)
C9_NonEmptyDictCall ==
    (pc # "idle" /\ ~keysIsDict /\ call.al = <<DictObj>> /\ call.pm # EmptyMap)
        => prep = Bound(call.pm, defaults, keys)

\* A spec of two distinct keys, a call without '_retry', and the parameters
\* the claims give for the values v1 and v2 of the two keys.
TwoKeySpec == ~keysIsDict /\ Len(keys) = 2 /\ keys[1].k # keys[2].k
NoOverride == call.kwretry = NoRetry /\ call.pmretry = NoRetry
Params(v1, v2) == Bound([k \in {keys[1].k, keys[2].k} |-> IF k = keys[1].k THEN v1 ELSE v2],
                        EmptyMap, keys)
Positions(al) ==
    CASE Len(al) = 0 -> Params(Get(defaults, keys[1].k), Get(defaults, keys[2].k))
      [] Len(al) = 1 -> Params(al[1], Get(defaults, keys[2].k))
      [] Len(al) >= 2 -> Params(al[1], al[2])

(***************************************************************************)
(* C10.  For an ordered spec [(a, f), (b, g)] the calls q([v1, v2]),       *)
(* q(v1, v2), q(a=v1, b=v2) and q({a: v1, b: v2}) all execute with the     *)
(* parameters [f(v1), g(v2)]; with fewer positions than keys the keys left *)
(* over take their defaults.                                               *)
(***************************************************************************)
C10_CallForms ==
    (pc # "idle" /\ TwoKeySpec /\ NoOverride)
        => /\ call.al = <<ListObj>> => prep = Positions(call.pl)
           /\ (\A i \in 1..Len(call.al) : call.al[i] \in Vals) /\ call.kw = EmptyMap
                => prep = Positions(call.al)
           /\ DOMAIN call.kw = {keys[1].k, keys[2].k}
                => prep = Params(call.kw[keys[1].k], call.kw[keys[2].k])
           /\ call.al = <<DictObj>> /\ DOMAIN call.pm = {keys[1].k, keys[2].k}
                => prep = Params(call.pm[keys[1].k], call.pm[keys[2].k])
C10_Witness ==
    /\ pc # "idle"
    /\ TwoKeySpec
    /\ NoOverride
    /\ call.al = <<ListObj>>
    /\ Len(call.pl) = 2
    /\ call.pl[1] # call.pl[2]
    /\ keys[1].f = "str"
    /\ prep.ok
    /\ prep.list = <<100 + call.pl[1], Apply(keys[2].f, call.pl[2])>>

(***************************************************************************)
(* C11.  Called with one bare object that is neither a dict nor a list,    *)
(* the functor binds, pair by pair of the ordered spec, the conversion of  *)
(* the object's attribute k when it has one and of defaults.get(k)         *)
(* otherwise.                                                              *)
(***************************************************************************)
C11_ObjectCall ==
    (pc # "idle" /\ ~keysIsDict /\ NoOverride /\ call.al = <<AttrObj>>)
        => prep = Bound(call.pm, defaults, keys)
\* prep_list's own branch for an object does what C11 says; __call__ never
\* takes it, because line 136 has made d a dict by then.
C11_PrepListObject ==
    (pc # "idle" /\ ~keysIsDict /\ call.al = <<AttrObj>>)
        => prep_list(FALSE, call.pm, defaults, keys, FALSE)
              = Bound(call.pm, defaults, keys)


(***************************************************************************)
(* CachedQuery: a list that refills itself from self.q when one of its     *)
(* checked methods finds it older than self.to seconds.                    *)
(***************************************************************************)
MaxTime == 4
MaxTtl == 2
MaxCalls == 3

frame == <<call, d, retry, prep, pc, con, held, closed, nconn, cur, log, stack,
           exc, ret>>
exec == <<functor, frame>>

\* The sources a CachedQuery is built over: str(self.q) returns or raises
\* (DSQuery.__repr__ unpacks and joins the keys of the spec).
Sources == [str : BOOLEAN]
Ttls == 0..MaxTtl
\* One call of self.q(): it returns rows, returns an int (DSCompatQuery's
\* -1), or raises.
Rows == SeqsUpTo({None, 1}, MaxRows)
SourceOutcomes ==
    [kind : {"rows"}, rows : Rows]
    \cup {[kind |-> k, rows |-> <<>>] : k \in {"int", "raise"}}

\* map(self.f, rows) and whether it raises
map(f, rows) == [i \in 1..Len(rows) |-> Apply(f, rows[i])]
mapFails(f, rows) == \E i \in 1..Len(rows) : Fails(f, rows[i])

\* (variant: the list keeps its elements when the source fails)
Line287_KeepOld(self, tm, out) ==
    IF out.kind = "rows" /\ ~mapFails(self.f, out.rows)
    THEN [ok |-> TRUE, t |-> tm, l |-> map(self.f, out.rows)]
    ELSE [ok |-> FALSE, t |-> self.t, l |-> self.list]
\* try: self.t, l = time.time(), map(self.f, self.q())
\* except Exception: l = []
\* The right-hand side is evaluated whole before self.t is assigned.
Line287(self, tm, out) ==
    IF out.kind = "rows" /\ ~mapFails(self.f, out.rows)
    THEN [ok |-> TRUE, t |-> tm, l |-> map(self.f, out.rows)]
    ELSE [ok |-> FALSE, t |-> self.t, l |-> <<>>]

\* refresh(): the log line with str(self.q) stands before the try.
refresh(self, tm, out) ==
    IF ~self.q.str
    THEN [raised |-> "ReprError", called |-> 0, ok |-> FALSE,
          t |-> self.t, list |-> self.list]
    ELSE LET r == Line287(self, tm, out)
         IN  [raised |-> "none", called |-> 1, ok |-> r.ok,
              t |-> r.t, list |-> r.l]

\* (variant: a list is stale from the ttl-th second on)
Stale_AtTtl(tm, t, to) == tm - t >= to
\* check(): if time.time() - self.t > self.to
Stale(tm, t, to) == tm - t > to

CheckedOps == {"len", "getitem", "getslice", "str"}
UncheckedOps == {"iter", "contains", "eq"}
\* (variant: every read checks)
Checks_All(op) == TRUE
\* __getitem__, __getslice__, __str__, __len__ = _checked(list.X)
Checks(op) == op \in CheckedOps

\* What list's own method answers on the elements l: len(cq), cq[0], cq[:],
\* str(cq) (the __repr__ text, no element), list(iter(cq)), 1 in cq, cq == [].
Answer(op, l) ==
    [op |-> op,
     called |-> 0,
     raised |-> IF op = "getitem" /\ l = <<>> THEN "IndexError" ELSE "none",
     n |-> CASE op = "len" -> Len(l)
             [] op = "contains" -> IF \E i \in 1..Len(l) : l[i] = 1 THEN 1 ELSE 0
             [] op = "eq" -> IF l = <<>> THEN 1 ELSE 0
             [] OTHER -> 0,
     seq |-> CASE op = "getitem" -> IF l = <<>> THEN <<>> ELSE <<l[1]>>
               [] op \in {"getslice", "iter"} -> l
               [] OTHER -> <<>>]

Self == [q |-> cq_q, to |-> cq_to, f |-> cq_f, t |-> cq_t, list |-> cq_list]


\* CachedQuery(q, to, f): line 282, then self.refresh().  When refresh
\* raises, the constructor raises and there is no object.
Construct(q, to, f, out) ==
    /\ ~cq
    /\ ncalls < MaxCalls
    /\ LET r == refresh([q |-> q, to |-> to, f |-> f, t |-> 0, list |-> <<>>],
                        now, out)
       IN  /\ obs' = [op |-> "init", raised |-> r.raised, called |-> r.called,
                   n |-> 0, seq |-> <<>>]
           /\ ncalls' = ncalls + r.called
           /\ IF r.raised = "none"
              THEN /\ cq' = TRUE
                   /\ cq_q' = q
                   /\ cq_to' = to
                   /\ cq_f' = f
                   /\ cq_t' = r.t
                   /\ cq_list' = r.list
                   /\ attempt' = [at |-> now, ok |-> r.ok]
              ELSE UNCHANGED <<cq, cq_q, cq_to, cq_f, cq_t, cq_list, attempt>>
    /\ UNCHANGED <<now, exec, module, threads>>

\* cq.refresh(), called by the application
Refresh(out) ==
    /\ cq
    /\ ncalls < MaxCalls
    /\ LET r == refresh(Self, now, out)
       IN  /\ obs' = [op |-> "refresh", raised |-> r.raised, called |-> r.called,
                   n |-> 0, seq |-> <<>>]
           /\ ncalls' = ncalls + r.called
           /\ cq_t' = r.t
           /\ cq_list' = r.list
           /\ attempt' = [at |-> now, ok |-> r.ok]
    /\ UNCHANGED <<cq, cq_q, cq_to, cq_f, now, exec, module, threads>>

\* One read of the list: a checked method runs check() first (lines
\* 293-301), every other one is list's own.
Observe(op) ==
    /\ cq
    /\ IF Checks(op) /\ Stale(now, cq_t, cq_to)
       THEN /\ ncalls < MaxCalls
            /\ \E out \in SourceOutcomes :
               LET r == refresh(Self, now, out)
               IN  /\ ncalls' = ncalls + r.called
                   /\ cq_t' = r.t
                   /\ cq_list' = r.list
                   /\ attempt' = [at |-> now, ok |-> r.ok]
                   /\ obs' = IF r.raised = "none"
                             THEN [Answer(op, r.list) EXCEPT !.called = r.called]
                             ELSE [op |-> op, raised |-> r.raised,
                                   called |-> r.called, n |-> 0, seq |-> <<>>]
       ELSE /\ obs' = Answer(op, cq_list)
            /\ UNCHANGED <<ncalls, cq_t, cq_list, attempt>>
    /\ UNCHANGED <<cq, cq_q, cq_to, cq_f, now, exec, module, threads>>

\* The clock advances.
Tick ==
    /\ now < MaxTime
    /\ now' = now + 1
    /\ UNCHANGED <<cq, cq_q, cq_to, cq_f, cq_t, cq_list, ncalls, attempt, obs,
                   exec, module, threads>>

NoFunctor ==
    /\ cls = "DSQuery"
    /\ keys = <<>>
    /\ keysIsDict = FALSE
    /\ defaults = EmptyMap
    /\ autocommit = TRUE

CacheInit ==
    /\ NoFunctor
    /\ Idle
    /\ NoModule
    /\ NoCache
    /\ now = 1
    /\ NoThreads

CacheNext ==
    \/ \E q \in Sources, to \in Ttls, f \in Fns, out \in SourceOutcomes :
          Construct(q, to, f, out)
    \/ \E out \in SourceOutcomes : Refresh(out)
    \/ \E op \in CheckedOps \cup UncheckedOps : Observe(op)
    \/ Tick

CacheSpec == CacheInit /\ [][CacheNext]_vars

CacheTypeOK ==
    /\ cq_t \in 0..MaxTime
    /\ ncalls \in 0..MaxCalls
    /\ cq => cq_q.str


\* The step is a call of the CachedQuery's method op: only the clock's
\* step changes now, and every call leaves its name in obs.
Did(ops) == now' = now /\ obs'.op \in ops

(***************************************************************************)
(* C12.  Over a source that succeeds, constructing a CachedQuery calls the *)
(* source exactly once; a checked read (len, indexing, slicing, str) made  *)
(* while now - last refresh <= ttl does not call it; a checked read made   *)
(* once now - last refresh > ttl calls it exactly once before it answers   *)
(* and starts the ttl window again at now.                                 *)
(***************************************************************************)
C12_Ttl ==
    [][/\ (~cq /\ cq') => (ncalls' = ncalls + 1 /\ obs'.called = 1)
       /\ (cq /\ Did(CheckedOps) /\ attempt.ok) =>
             IF now - attempt.at <= cq_to
             THEN /\ ncalls' = ncalls
                  /\ obs' = Answer(obs'.op, cq_list)
             ELSE /\ ncalls' = ncalls + 1
                  /\ obs'.called = 1
                  /\ attempt'.ok =>
                        /\ cq_t' = now
                        /\ attempt'.at = now
                        /\ obs' = [Answer(obs'.op, cq_list')
                                      EXCEPT !.called = 1]]_vars
\* A checked read has found the list stale and refilled it from the source.
C12_Witness ==
    /\ obs.op \in CheckedOps
    /\ obs.called = 1
    /\ attempt = [at |-> now, ok |-> TRUE]
    /\ cq_list # <<>>
    /\ ncalls = 2
\* and a checked read at exactly ttl seconds has not called the source
C12_WitnessFresh ==
    /\ obs.op \in CheckedOps
    /\ obs.called = 0
    /\ attempt.ok
    /\ cq_to > 0
    /\ now - attempt.at = cq_to


\* self.q() raised, returned something map cannot iterate, or self.f raised
\* on a row: line 287 raises inside the try.
Failing(f, out) == out.kind # "rows" \/ mapFails(f, out.rows)
\* The step is a call that ran refresh() and line 287 raised in it.
FailedRefresh == now' = now /\ obs'.called = 1 /\ ~attempt'.ok

(***************************************************************************)
(* C13.  When the source or the transform raises during a refresh, be it   *)
(* the constructor's, an explicit refresh() or the one a stale checked     *)
(* read starts, the exception does not reach the caller and the list is    *)
(* left empty: the constructor returns the object, refresh() returns, and  *)
(* the read answers what list answers on no elements.                      *)
(***************************************************************************)
C13_FailedRefreshEmpties ==
    [][FailedRefresh =>
          /\ cq'
          /\ cq_list' = <<>>
          /\ attempt'.at = now
          /\ IF obs'.op \in {"init", "refresh"}
             THEN obs'.raised = "none"
             ELSE /\ obs' = [Answer(obs'.op, <<>>) EXCEPT !.called = 1]
                  /\ obs'.raised = IF obs'.op = "getitem" THEN "IndexError"
                                   ELSE "none"]_vars
\* A stale len() whose refresh failed has answered 0 after an earlier
\* refresh had succeeded.
C13_Witness ==
    /\ obs.op = "len"
    /\ obs.called = 1
    /\ obs.n = 0
    /\ ~attempt.ok
    /\ attempt.at = now
    /\ cq_t > 0
    /\ cq_list = <<>>


(***************************************************************************)
(* C14.  When the rollback of the non-connection handler itself fails, the *)
(* failure is swallowed: the connection is still put back into the pool    *)
(* and the caller gets the error that made the handler run.                *)
(***************************************************************************)
C14_RollbackBestEffort ==
    \A i \in Idx("rollback") :
        (pc = "done" /\ cls = "DSQuery" /\ log[i].res # "ok")
            => /\ Len(log) = i + 1
               /\ log[i + 1] = Ev("putconn", log[i].c, "ok")
               /\ log[i].c \notin held
               /\ exc = "OtherError"
\* What the handler does hold to: a rollback that succeeds is followed by
\* the release and the original error.
C14_RollbackThenRelease ==
    \A i \in Idx("rollback") :
        (pc = "done" /\ cls = "DSQuery" /\ log[i].res = "ok")
            => /\ Len(log) = i + 1
               /\ log[i + 1] = Ev("putconn", log[i].c, "ok")
               /\ log[i].c \notin held
               /\ exc = "OtherError"


(***************************************************************************)
(* The module's default data source: module_ds, reset() and Query().       *)
(***************************************************************************)
MaxModuleCalls == 4

\* Where Query() finds the DSN: '--dsn' followed by a value in sys.argv, else
\* config.dsn, else ''.
Envs == [argv : BOOLEAN, config : BOOLEAN]
Dsn(e) == IF e.argv THEN "argv" ELSE IF e.config THEN "config" ELSE "empty"

\* (variant: every Query() makes its own data source)
Missing_Always(ds) == TRUE
\* if not module_ds
Missing(ds) == ds = None

\* return module_ds.compat(sql, keys, defaults): the autocommit argument is
\* not passed on, compat's own default (True) applies.
QueryAutocommit(asked) == TRUE

\* Query(sql, autocommit=asked)
Query(asked, e) ==
    /\ pc = "idle"
    /\ Len(made) < MaxModuleCalls
    /\ IF Missing(module_ds)
       THEN /\ nds' = nds + 1
            /\ module_ds' = nds + 1
       ELSE UNCHANGED <<module_ds, nds>>
    /\ made' = Append(made, [op |-> "Query", asked |-> asked, pool |-> module_ds',
                             dsn |-> IF Missing(module_ds) THEN Dsn(e)
                                                           ELSE "none"])
    /\ cls' = "DSCompatQuery"
    /\ keys' = <<>>
    /\ keysIsDict' = FALSE
    /\ defaults' = EmptyMap
    /\ autocommit' = QueryAutocommit(asked)
    /\ UNCHANGED <<frame, cache, threads>>

\* reset()
reset ==
    /\ pc = "idle"
    /\ Len(made) < MaxModuleCalls
    /\ module_ds' = None
    /\ made' = Append(made, [op |-> "reset", asked |-> TRUE, pool |-> None,
                             dsn |-> "none"])
    /\ UNCHANGED <<nds, exec, cache, threads>>

\* The functor the last Query() returned is called: q(), q(_retry=r).
Queries == {i \in 1..Len(made) : made[i].op = "Query"}
ModuleCalls == PlainCalls({}, {}, 0, {NoRetry, 1})
Call ==
    /\ Queries # {}
    /\ \E c \in ModuleCalls : Invoke(c)

ModuleInit ==
    /\ NoFunctor
    /\ Idle
    /\ NoModule
    /\ NoCache
    /\ now = 1
    /\ NoThreads

ModuleNext ==
    \/ \E asked \in BOOLEAN, e \in Envs : Query(asked, e)
    \/ reset
    \/ Call
    \/ GetConn
    \/ Execute
    \/ Commit
    \/ PutConn
    \/ OperErr
    \/ Except
    \/ Return

ModuleSpec == ModuleInit /\ [][ModuleNext]_vars

\* no reset() between the i-th and the j-th module call
NoResetBetween(i, j) == \A k \in i..j : made[k].op # "reset"

(***************************************************************************)
(* C15.  The first Query() creates the module's data source, every later   *)
(* Query() reuses it unchanged until reset(), and the first Query() after  *)
(* a reset() constructs a new one from the DSN it resolves then: two       *)
(* Query() calls with no reset() between them get functors on the same     *)
(* pool, two with a reset() between them functors on different pools.      *)
(***************************************************************************)
C15_DefaultDataSource ==
    /\ \A i \in Queries :
          /\ made[i].pool # None
          /\ (i = 1 \/ made[i - 1].op = "reset") <=> made[i].dsn # "none"
    /\ \A i \in Queries, j \in Queries :
          i < j => (NoResetBetween(i, j) <=> made[i].pool = made[j].pool)
    /\ (made # <<>> /\ Last(made).op = "Query") => module_ds = Last(made).pool
    /\ (made # <<>> /\ Last(made).op = "reset") => module_ds = None
    /\ nds = Cardinality({i \in Queries : made[i].dsn # "none"})
\* Query(), Query(), reset(), Query(): one pool for the first two, a second
\* for the third.
C15_Witness ==
    /\ Len(made) = 4
    /\ made[1].op = "Query" /\ made[2].op = "Query"
    /\ made[3].op = "reset" /\ made[4].op = "Query"
    /\ made[2].pool = made[1].pool
    /\ made[4].pool # made[1].pool
    /\ made[4].dsn # made[1].dsn


\* the autocommit argument of the Query() call whose functor is in use
Asked == made[CHOOSE i \in Queries : \A j \in Queries : j <= i].asked

(***************************************************************************)
(* C17.  Query() honours its autocommit argument: the functor it returns   *)
(* for autocommit=False calls commit on no connection when it is invoked.  *)
(***************************************************************************)
C17_QueryAutocommit ==
    (Queries # {} /\ ~Asked) => Idx("commit") = {}
\* What holds instead: whatever was asked, the functor commits after every
\* statement that returned.
C17_QueryAlwaysCommits ==
    /\ Queries # {} => autocommit
    /\ \A i \in Idx("execute") :
          (log[i].res = "ok" /\ Len(log) > i) => log[i + 1].op = "commit"


(***************************************************************************)
(* C16.  refresh() records its timestamp whether the source raised or not: *)
(* a checked read made within ttl seconds of a refresh in which the source *)
(* raised does not call the source.                                        *)
(***************************************************************************)
C16_FailedRefreshTimestamp ==
    [][(cq /\ Did(CheckedOps) /\ ~attempt.ok /\ now - attempt.at <= cq_to)
          => ncalls' = ncalls]_vars
\* What refresh() does: a refresh in which line 287 raised leaves self.t as
\* it was, and one in which it did not sets it to the time of the refresh.
C16_TimestampOnSuccessOnly ==
    [][(cq' /\ attempt' # attempt) =>
          cq_t' = IF attempt'.ok THEN now ELSE IF cq THEN cq_t ELSE 0]_vars


(***************************************************************************)
(* C19.  Of the reads of a CachedQuery only len, indexing, slicing and str *)
(* check for staleness: on a stale list each of them refreshes first,      *)
(* while iteration, membership and equality answer from the elements the   *)
(* list holds, leave them and self.t alone and do not call the source.     *)
(***************************************************************************)
C19_UncheckedReads ==
    [][(cq /\ Did(CheckedOps \cup UncheckedOps) /\ Stale(now, cq_t, cq_to)) =>
          IF obs'.op \in {"len", "getitem", "getslice", "str"}
          THEN ncalls' = ncalls + 1 /\ obs'.called = 1
          ELSE /\ ncalls' = ncalls
               /\ cq_list' = cq_list
               /\ cq_t' = cq_t
               /\ obs' = Answer(obs'.op, cq_list)]_vars
\* An iteration over a stale list has returned the old elements.
C19_Witness ==
    /\ obs.op = "iter"
    /\ obs.called = 0
    /\ Stale(now, cq_t, cq_to)
    /\ cq_list # <<>>
    /\ obs.seq = cq_list
    /\ ncalls = 1


\* the first getconn of the invocation raised OperationalError: con is None
AcquireBroken == log # <<>> /\ log[1] = Ev("getconn", 0, "OperationalError")

(***************************************************************************)
(* C20.  A connection-broken error raised by getconn itself, no connection *)
(* obtained, is handled like any other: with budget r > 0 the invocation   *)
(* goes on to a further attempt, with r = 0 the caller gets the            *)
(* connection-broken error; no error of another kind comes out of the      *)
(* handler, and no close or release is made on the missing connection.     *)
(***************************************************************************)
C20_AcquireBroken ==
    (pc = "done" /\ cls = "DSQuery" /\ AcquireBroken) =>
        /\ IF Budget > 0
           THEN Len(log) >= 2 /\ log[2].op = "getconn"
           ELSE Len(log) = 1 /\ exc = "OperationalError"
        /\ exc # "AttributeError"
        /\ \A i \in Idx("close") \cup Idx("putconn") : log[i].c # 0
\* The half that holds: without budget the error is re-raised and nothing is
\* closed or released.
C20_AcquireBrokenNoBudget ==
    (pc = "done" /\ cls = "DSQuery" /\ AcquireBroken /\ Budget = 0) =>
        /\ Len(log) = 1
        /\ exc = "OperationalError"
        /\ held = {}
\* With budget the handler stops at con.close() on None.
C20_AcquireBrokenWithBudget ==
    (pc = "done" /\ cls = "DSQuery" /\ AcquireBroken /\ Budget > 0) =>
        /\ Len(log) = 1
        /\ exc = "AttributeError"


(***************************************************************************)
(* Two threads read one CachedQuery.  A checked read is check()'s          *)
(* comparison, then refresh()'s call of the source, then the assignments   *)
(* to self.t and self[:] and list's method; the interpreter may switch     *)
(* threads between any two of them, and most readily inside the source's   *)
(* call.  Nothing in the class takes a lock.                               *)
(***************************************************************************)
\* The reads the threads make, and what the source does when they call it.
RaceOps == {"len", "getitem"}
RaceOutcomes == {[kind |-> "rows", rows |-> <<1>>],
                 [kind |-> "raise", rows |-> <<>>]}

\* (variant: a read waits while another thread is inside a checked read)
MayEnter_Locked(th, pcs) == \A o \in Threads \ {th} : pcs[o] = "idle"
\* m(self, ...): self.check() is called straight away
MayEnter(th, pcs) == TRUE

\* check(): fresh, the read answers at once; stale, the thread goes on to
\* refresh().
Check(th, op) ==
    /\ tpc[th] = "idle"
    /\ MayEnter(th, tpc)
    /\ IF Stale(now, cq_t, cq_to)
       THEN /\ tpc' = [tpc EXCEPT ![th] = "refresh"]
            /\ seen' = [seen EXCEPT ![th] = cq_t]
            /\ tl' = [tl EXCEPT ![th].op = op]
            /\ UNCHANGED obs
       ELSE /\ obs' = Answer(op, cq_list)
            /\ UNCHANGED threads
    /\ UNCHANGED <<cq, cq_q, cq_to, cq_f, cq_t, cq_list, now, ncalls, attempt,
                   exec, module>>

\* The right-hand side of line 287: the time is read and the source called.
CallSource(th, out) ==
    /\ tpc[th] = "refresh"
    /\ ncalls < MaxCalls
    /\ ncalls' = ncalls + 1
    /\ LET r == Line287(Self, now, out)
       IN  tl' = [tl EXCEPT ![th] = [op |-> tl[th].op, t |-> now,
                                     ok |-> r.ok, l |-> r.l]]
    /\ tpc' = [tpc EXCEPT ![th] = "assign"]
    /\ UNCHANGED <<cq, cq_q, cq_to, cq_f, cq_t, cq_list, now, attempt, obs,
                   seen, exec, module>>

\* self.t is assigned when line 287 did not raise, then self[:] = l, then
\* list's method answers.
Assign(th) ==
    /\ tpc[th] = "assign"
    /\ cq_t' = IF tl[th].ok THEN tl[th].t ELSE cq_t
    /\ cq_list' = tl[th].l
    /\ attempt' = [at |-> tl[th].t, ok |-> tl[th].ok]
    /\ obs' = [Answer(tl[th].op, tl[th].l) EXCEPT !.called = 1]
    /\ tpc' = [tpc EXCEPT ![th] = "idle"]
    /\ UNCHANGED <<cq, cq_q, cq_to, cq_f, now, ncalls, seen, tl, exec, module>>

\* A CachedQuery that was constructed at time 1 over a source that returned.
RaceInit ==
    /\ NoFunctor
    /\ Idle
    /\ NoModule
    /\ cq = TRUE
    /\ cq_q = [str |-> TRUE]
    /\ cq_to \in Ttls
    /\ cq_f = "nop"
    /\ cq_t = 1
    /\ cq_list = <<1>>
    /\ now = 1
    /\ ncalls = 1
    /\ attempt = [at |-> 1, ok |-> TRUE]
    /\ obs = [op |-> "init", raised |-> "none", called |-> 1, n |-> 0,
              seq |-> <<>>]
    /\ NoThreads

RaceNext ==
    \/ \E th \in Threads, op \in RaceOps : Check(th, op)
    \/ \E th \in Threads, out \in RaceOutcomes : CallSource(th, out)
    \/ \E th \in Threads : Assign(th)
    \/ Tick

RaceSpec == RaceInit /\ [][RaceNext]_vars

\* thread th has found the list stale and has not yet assigned self.t
Refreshing(th) == tpc[th] \in {"refresh", "assign"}

(***************************************************************************)
(* C18.  Nothing excludes two threads from each other in a checked read:   *)
(* while one thread has passed the staleness check and not yet recorded a  *)
(* timestamp, the list is as stale as it was and another thread's read     *)
(* can pass the check too; so both call the source for the one expiry.     *)
(***************************************************************************)
C18_NoMutualExclusion ==
    \A a \in Threads : \A b \in Threads \ {a} :
        (Refreshing(a) /\ tpc[b] = "idle") =>
            /\ (cq_t = seen[a] => Stale(now, cq_t, cq_to))
            /\ Stale(now, cq_t, cq_to) =>
                  ENABLED (Check(b, "len") /\ tpc'[b] = "refresh")
\* Both threads have called the source after seeing the same self.t, and
\* neither has recorded a timestamp: two calls for one expiry.
C18_Witness ==
    /\ \A th \in Threads : tpc[th] = "assign" /\ seen[th] = cq_t
    /\ ncalls = 3

====
